---- MODULE Spec2Model ----
(***************************************************************************)
(* Model of bin/db2authors.py: the single pass over the author roster that *)
(* joins it with the author database and prints author / affiliation       *)
(* markup in one of three dialects (aas, spie, adass).                     *)
(*                                                                         *)
(* Text is modelled as a sequence of atoms (short strings): "," and " "    *)
(* are atoms of their own, so that str.split(','), str.split() and the     *)
(* re.sub calls are computed, not assumed.  str.format is concatenation.   *)
(* An output line is a record carrying the fields that were formatted      *)
(* into it.  WRITE_CSV is False in the source, so the CSV branch (lines    *)
(* 105-109) is dead and not modelled.                                      *)
(***************************************************************************)
EXTENDS Integers, Sequences, FiniteSets, TLC

\* ---------------------------------------------------------------- bounds
MaxRoster == 2
MaxAffil == 2

\* ------------------------------------------------------ generic helpers
Range(s) == {s[i] : i \in 1..Len(s)}

SeqsUpTo(S, n) == UNION {[1..k -> S] : k \in 0..n}

\* str(n) for the small integers that occur
Str(n) == ToString(n)

\* ------------------------------------------------------- configuration
OUTPUT_MODES == {"aas", "spie", "adass"}

buffer_affil(m) == m \in {"spie", "adass"}
buffer_authors(m) == m = "adass"
author_super(m) == m = "adass"
affil_cmd(m) == IF m \in {"spie", "adass"} THEN "affil" ELSE "affiliation"

\* affil_form.format(affil_cmd, n, text): \cmd[n]{text}, adass \cmd{$^n$text}
affil_form(m, n, text) ==
  [kind |-> "affil", cmd |-> affil_cmd(m),
   form |-> IF m = "adass" THEN "super" ELSE "option",
   num |-> n, text |-> text]

\* auth_afil_form.format(affilAuth, affilSep, ind): "{}{}{}", adass "{}{}$^{}$"
auth_afil_form(m, affilAuth, affilSep, ind) ==
  IF m = "adass" THEN affilAuth \o affilSep \o <<"$^", ind, "$">>
  ELSE affilAuth \o affilSep \o <<ind>>

\* ------------------------------------------------------------ the input
\* authors.yaml: identifiers; "zz" has no entry in the database
DbIds == {"a1", "a2"}
RosterIds == DbIds \cup {"zz"}
Labels == {"L1", "L2"}

\* affiliation address texts with 1, 2, 3, 4 and 5 comma-separated segments
Addr1 == <<"Inst", " ", "A">>
Addr2 == <<"Inst", " ", "A", ",", " ", "Country", " ", "Y">>
Addr4 == <<"Inst", " ", "A", ",", " ", "City", " ", "X", ",", " ", "ST", " ",
           "12345", ",", " ", "Country", " ", "Y">>
Addr3 == <<"Inst", " ", "B", ",", " ", "ST", ",", " ", "Country", " ", "Z">>
Addr3Blank == <<"Inst", " ", "B", ",", " ", ",", " ", "Country", " ", "Z">>
Addr5 == <<"Inst", " ", "B", ",", " ", "1", " ", "Road", ",", " ", "City", " ",
           "W", ",", " ", "ST", " ", "99", ",", " ", "Country", " ", "Z">>

\* authordb.yaml "affiliations": three databases, the texts of L1 and L2;
\* the two labels of a database never share a text
AddrPairs == {<<Addr1, Addr3>>, <<Addr2, Addr3Blank>>, <<Addr4, Addr5>>}

AffilTables == {[l \in Labels |-> IF l = "L1" THEN p[1] ELSE p[2]] : p \in AddrPairs}

AffilLists == SeqsUpTo(Labels, MaxAffil)

DbNames == {<<"van", " ", " ", "Dyk">>, <<"Smith">>}
DbInitials == {<<"A", ".", "B", ".">>, <<"C", ".", " ", "D", ".">>}

\* authordb.yaml "authors": a1 has every optional key, a2 has none of them
AuthorInfo(l1, l2) ==
  [i \in DbIds |->
     IF i = "a1"
     THEN [name |-> <<"van", " ", " ", "Dyk">>, initials |-> <<"A", ".", "B", ".">>,
           orcid |-> <<"0000-0001">>, email |-> <<"a1@x.org">>,
           altaffil |-> << <<"Hubble", " ", "Fellow">> >>, affil |-> l1]
     ELSE [name |-> <<"Smith">>, initials |-> <<"C", ".", " ", "D", ".">>,
           affil |-> l2]]

Rosters == SeqsUpTo(RosterIds, MaxRoster)

\* ----------------------------------------------------------- text helpers
IsSpace(a) == a = " "
IsWord(a) == a \notin {" ", ",", ".", "~"}

\* s.split(','): the segments between commas, empty ones kept
RECURSIVE SplitComma(_, _, _)
SplitComma(s, i, cur) ==
  IF i > Len(s) THEN <<cur>>
  ELSE IF s[i] = "," THEN <<cur>> \o SplitComma(s, i + 1, <<>>)
  ELSE SplitComma(s, i + 1, Append(cur, s[i]))

Split(s) == SplitComma(s, 1, <<>>)

\* s.split(): the words between runs of whitespace, empty ones dropped
SplitWs(s) == SelectSeq(s, LAMBDA a : ~IsSpace(a))

\* re.sub(r"\s+", "~", s)
RECURSIVE SubSpaces(_, _)
SubSpaces(s, i) ==
  IF i > Len(s) THEN <<>>
  ELSE IF IsSpace(s[i])
       THEN IF i > 1 /\ IsSpace(s[i - 1]) THEN SubSpaces(s, i + 1)
            ELSE <<"~">> \o SubSpaces(s, i + 1)
       ELSE <<s[i]>> \o SubSpaces(s, i + 1)

\* re.sub(r"\.(\w)", lambda m: ".~" + m.group(1), s)
RECURSIVE SubDotWord(_, _)
SubDotWord(s, i) ==
  IF i > Len(s) THEN <<>>
  ELSE IF s[i] = "." /\ i < Len(s) /\ IsWord(s[i + 1])
       THEN <<".", "~">> \o SubDotWord(s, i + 1)
       ELSE <<s[i]>> \o SubDotWord(s, i + 1)

\* the two substitutions on every name of the database, computed once
SurnameOf == [n \in DbNames |-> SubSpaces(n, 1)]
InitialsOf == [n \in DbInitials |-> SubSpaces(SubDotWord(n, 1), 1)]

Surname(auth) == SurnameOf[auth.name]
Initials(auth) == InitialsOf[auth.initials]
\* auth.get("orcid", ""), auth.get("email", "")
GetOrcid(auth) == IF "orcid" \in DOMAIN auth THEN auth.orcid ELSE <<>>
GetEmail(auth) == IF "email" \in DOMAIN auth THEN auth.email ELSE <<>>

\* ---------------------------------------------------------------- state
VARIABLES
  mode,          \* args.mode
  authors,       \* the roster
  authorinfo,    \* authordb["authors"]
  affil,         \* authordb["affiliations"]
  pc,            \* "loop", "affil", "record", "final", "done", "error"
  err,           \* the exception that ended the run, or NoError
  anum,          \* position of the enumerate() over the roster
  j,             \* position of the loop over auth["affil"] (1-based)
  affilset, affilOutput, affilAuth, affilSep,
  tute, country, state, pcode, city,
  bound,         \* which of country / state / pcode have been assigned
  authOutput, allAffil, pAuthorOutput, indexOutput,
  output         \* the lines printed to standard output

vars == <<mode, authors, authorinfo, affil, pc, err, anum, j,
          affilset, affilOutput, affilAuth, affilSep,
          tute, country, state, pcode, city, bound,
          authOutput, allAffil, pAuthorOutput, indexOutput, output>>

inputs == <<mode, authors, authorinfo, affil>>
addrVars == <<tute, country, state, pcode, city, bound>>
buffers == <<authOutput, allAffil, pAuthorOutput, indexOutput>>

NoError == [type |-> "none"]
Banner == [kind |-> "banner"]
Blank == [kind |-> "blank"]
Comment == [kind |-> "comment"]

Init ==
  /\ mode \in OUTPUT_MODES
  /\ authors \in Rosters
  /\ authorinfo \in {AuthorInfo(l1, l2) : l1 \in AffilLists, l2 \in AffilLists}
  /\ affil \in AffilTables
  /\ pc = "loop"
  /\ err = NoError
  /\ anum = 0
  /\ j = 1
  /\ affilset = <<>>
  /\ affilOutput = <<>>
  /\ affilAuth = <<>>
  /\ affilSep = <<>>
  /\ tute = <<>> /\ country = <<>> /\ state = "" /\ pcode = "" /\ city = <<>>
  /\ bound = {}
  /\ authOutput = <<>>
  /\ allAffil = <<>>
  /\ pAuthorOutput = <<>>
  /\ indexOutput = <<>>
  /\ output = <<Banner, Blank, Blank>>

authorid == authors[anum + 1]
auth == authorinfo[authorid]

\* ------------------------------------------------------ the main pass
\* the for statement finds the roster exhausted
LoopExit ==
  /\ pc = "loop"
  /\ anum = Len(authors)
  /\ pc' = IF buffer_authors(mode) THEN "final" ELSE "done"
  /\ UNCHANGED <<inputs, err, anum, j, affilset, affilOutput, affilAuth,
                 affilSep, addrVars, buffers, output>>

\* authorinfo[authorid] raises KeyError, re-raised as RuntimeError
MissingAuthor ==
  /\ pc = "loop"
  /\ anum < Len(authors)
  /\ authorid \notin DOMAIN authorinfo
  /\ pc' = "error"
  /\ err' = [type |-> "RuntimeError", authorid |-> authorid]
  /\ UNCHANGED <<inputs, anum, j, affilset, affilOutput, affilAuth,
                 affilSep, addrVars, buffers, output>>

\* variant: the test also admits the last position of the roster
FirstAffilSepAll(m, pos, n) ==
  IF author_super(m) /\ pos < n THEN <<",">> ELSE <<>>

\* the separator in front of an author's first index (lines 134-137)
FirstAffilSep(m, pos, n) ==
  IF author_super(m) /\ pos < n - 1 THEN <<",">> ELSE <<>>

BeginAuthor ==
  /\ pc = "loop"
  /\ anum < Len(authors)
  /\ authorid \in DOMAIN authorinfo
  /\ affilOutput' = <<>>
  /\ affilAuth' = <<>>
  /\ affilSep' = FirstAffilSep(mode, anum, Len(authors))
  /\ j' = 1
  /\ pc' = "affil"
  /\ UNCHANGED <<inputs, err, anum, affilset, addrVars, buffers, output>>

\* variant: the membership test is lost, every label counts as new
NotSeenAlways(l, s) == TRUE

\* theAffil not in affilset
NotSeen(l, s) == l \notin Range(s)

\* variant: the number is taken one too high
AffilNumberNext(s) == Len(s) + 1

\* the number formatted into a new affiliation line: len(affilset)
AffilNumber(s) == Len(s)

\* variant: the index of the newest label instead of the label's own
AffilIndNewest(s, l) == Len(s)

\* affilset.index(theAffil) + 1
AffilInd(s, l) == (CHOOSE i \in 1..Len(s) : s[i] = l /\ \A k \in 1..(i - 1) : s[k] # l)

\* one iteration of "for theAffil in auth['affil']"
ResolveAffil ==
  /\ pc = "affil"
  /\ j <= Len(auth.affil)
  /\ LET theAffil == auth.affil[j]
         new == NotSeen(theAffil, affilset)
         set1 == IF new THEN Append(affilset, theAffil) ELSE affilset
     IN /\ affilset' = set1
        /\ affilOutput' =
             IF new THEN Append(affilOutput,
                                affil_form(mode, AffilNumber(set1), affil[theAffil]))
             ELSE affilOutput
        /\ affilAuth' = auth_afil_form(mode, affilAuth, affilSep,
                                       Str(AffilInd(set1, theAffil)))
  /\ affilSep' = <<",">>
  /\ j' = j + 1
  /\ UNCHANGED <<inputs, pc, err, anum, addrVars, buffers, output>>

\* ------------------------------------------- address parsing (167-183)
\* the label whose address text is parsed for the current author: affilset[0]
AddrLabel(set, a) == set[1]

\* the split of every address text of the database, computed once
AddrTexts == {Addr1, Addr2, Addr3, Addr3Blank, Addr4, Addr5}
SplitOf == [a \in AddrTexts |-> Split(a)]

\* addr = affil[affilset[0]].split(',')
AddrSegments == SplitOf[affil[AddrLabel(affilset, auth)]]
\* ind after the country step
IndAfterCountry(addr) == IF Len(addr) - 1 > 0 THEN Len(addr) - 2 ELSE Len(addr) - 1

\* affilset[0] raises IndexError: no affiliation has been seen yet
AddrIndexError ==
  /\ pc = "affil"
  /\ j > Len(auth.affil)
  /\ Len(affilset) = 0
  /\ pc' = "error"
  /\ err' = [type |-> "IndexError", line |-> 168]
  /\ UNCHANGED <<inputs, anum, j, affilset, affilOutput, affilAuth, affilSep,
                 addrVars, buffers, output>>

\* sc[0] raises IndexError: the state segment has no word in it
StateIndexError ==
  /\ pc = "affil"
  /\ j > Len(auth.affil)
  /\ Len(affilset) > 0
  /\ LET addr == AddrSegments
         ind == IndAfterCountry(addr)
     IN /\ ind > 0
        /\ SplitWs(addr[ind + 1]) = <<>>
        /\ tute' = addr[1]
        /\ country' = addr[Len(addr)]
        /\ bound' = bound \cup {"country"}
  /\ pc' = "error"
  /\ err' = [type |-> "IndexError", line |-> 177]
  /\ UNCHANGED <<inputs, anum, j, affilset, affilOutput, affilAuth, affilSep,
                 state, pcode, city, buffers, output>>

\* lines 168-183 run to the end; names not assigned keep their old binding
ParseAddress ==
  /\ pc = "affil"
  /\ j > Len(auth.affil)
  /\ Len(affilset) > 0
  /\ LET addr == AddrSegments
         ind0 == Len(addr) - 1
         ind1 == IndAfterCountry(addr)
         sc == IF ind1 > 0 THEN SplitWs(addr[ind1 + 1]) ELSE <<>>
         ind2 == IF ind1 > 0 THEN ind1 - 1 ELSE ind1
     IN /\ ind1 > 0 => sc # <<>>
        /\ tute' = addr[1]
        /\ country' = IF ind0 > 0 THEN addr[ind0 + 1] ELSE country
        /\ state' = IF ind1 > 0 THEN sc[1] ELSE state
        /\ pcode' = IF ind1 > 0 THEN (IF Len(sc) = 2 THEN sc[2] ELSE "") ELSE pcode
        /\ city' = IF ind2 > 0 THEN addr[ind2 + 1] ELSE <<>>
        /\ bound' = bound \cup (IF ind0 > 0 THEN {"country"} ELSE {})
                          \cup (IF ind1 > 0 THEN {"state", "pcode"} ELSE {})
  /\ pc' = "record"
  /\ UNCHANGED <<inputs, err, anum, j, affilset, affilOutput, affilAuth,
                 affilSep, buffers, output>>

\* ------------------------------------------- records and emission (150-207)
\* the names read by the \paperauthor format call, in evaluation order
RecordReads == <<"state", "pcode", "country">>

\* a name read before any assignment to it: NameError
RecordNameError ==
  /\ pc = "record"
  /\ \E k \in 1..Len(RecordReads) :
       /\ RecordReads[k] \notin bound
       /\ \A i \in 1..(k - 1) : RecordReads[i] \in bound
       /\ err' = [type |-> "NameError", name |-> RecordReads[k]]
  /\ pc' = "error"
  /\ UNCHANGED <<inputs, anum, j, affilset, affilOutput, affilAuth, affilSep,
                 addrVars, buffers, output>>

\* lines 150-154
Orcid(m, a, marker) ==
  IF buffer_affil(m) THEN <<"[">> \o marker \o <<"]">>
  ELSE IF "orcid" \in DOMAIN a /\ a.orcid # <<>>
       THEN <<"[">> \o a.orcid \o <<"]">>
       ELSE <<>>

\* print(*lines, sep="\n"): an empty list still prints one empty line
PrintAll(lines) == IF lines = <<>> THEN <<Blank>> ELSE lines

AuthorLine(m, a, marker) ==
  [kind |-> "author", orcid |-> Orcid(m, a, marker),
   initials |-> Initials(a), surname |-> Surname(a)]

\* lines 200-206: the unbuffered dialect reprints the author's own affiliations
PlainLines(m, a) ==
  (IF "altaffil" \in DOMAIN a
   THEN [i \in 1..Len(a.altaffil) |-> [kind |-> "altaffiliation", text |-> a.altaffil[i]]]
   ELSE <<>>)
  \o [i \in 1..Len(a.affil) |->
        [kind |-> "affil", cmd |-> affil_cmd(m), form |-> "plain", num |-> 0,
         text |-> affil[a.affil[i]]]]

\* lines 196-207: what one author prints when authors are not buffered
AuthorPrints(m, a, marker, newAffil) ==
  <<AuthorLine(m, a, marker)>>
  \o (IF buffer_affil(m) THEN PrintAll(newAffil) ELSE PlainLines(m, a))
  \o <<Blank>>

RecordAndEmit ==
  /\ pc = "record"
  /\ \A k \in 1..Len(RecordReads) : RecordReads[k] \in bound
  /\ pAuthorOutput' = Append(pAuthorOutput,
       [kind |-> "paperauthor", initials |-> Initials(auth), surname |-> Surname(auth),
        email |-> GetEmail(auth), orc |-> GetOrcid(auth), tute |-> tute,
        city |-> city, state |-> state, pcode |-> pcode, country |-> country])
  /\ indexOutput' = Append(indexOutput,
       [kind |-> "aindex", surname |-> Surname(auth), initials |-> Initials(auth)])
  /\ IF buffer_authors(mode)
     THEN /\ authOutput' = Append(authOutput,
               [kind |-> "fragment", initials |-> Initials(auth),
                surname |-> Surname(auth), affilAuth |-> affilAuth])
          /\ allAffil' = allAffil \o affilOutput
          /\ output' = output
     ELSE /\ output' = output \o AuthorPrints(mode, auth, affilAuth, affilOutput)
          /\ UNCHANGED <<authOutput, allAffil>>
  /\ anum' = anum + 1
  /\ pc' = "loop"
  /\ UNCHANGED <<inputs, err, j, affilset, affilOutput, affilAuth, affilSep,
                 addrVars>>

\* ------------------------------------------------- finalization (209-223)
Sep(text) == [kind |-> "sep", text |-> text]

\* what is printed after the k-th of n fragments (anum = k at that point)
AuthorSep(k, n) == IF k = n - 1 THEN Sep(" and ") ELSE Sep(" ")

RECURSIVE JoinAuthors(_, _)
JoinAuthors(authO, k) ==
  IF k > Len(authO) THEN <<>>
  ELSE <<authO[k], AuthorSep(k, Len(authO))>> \o JoinAuthors(authO, k + 1)

CombinedAuthor(authO) == [kind |-> "authors", body |-> JoinAuthors(authO, 1)]

\* variant: the listing is printed before the affiliation lines
FinalOutputListingFirst(authO, allA, pA, idxO) ==
  <<CombinedAuthor(authO)>> \o PrintAll(pA) \o PrintAll(allA)
  \o <<Comment>> \o PrintAll(idxO)

\* lines 209-223
FinalOutput(authO, allA, pA, idxO) ==
  <<CombinedAuthor(authO)>> \o PrintAll(allA) \o PrintAll(pA)
  \o <<Comment>> \o PrintAll(idxO)

Finalize ==
  /\ pc = "final"
  /\ output' = output \o FinalOutput(authOutput, allAffil, pAuthorOutput, indexOutput)
  /\ anum' = Len(authOutput)
  /\ pc' = "done"
  /\ UNCHANGED <<inputs, err, j, affilset, affilOutput, affilAuth, affilSep,
                 addrVars, buffers>>

Next ==
  \/ LoopExit
  \/ MissingAuthor
  \/ BeginAuthor
  \/ ResolveAffil
  \/ AddrIndexError
  \/ StateIndexError
  \/ ParseAddress
  \/ RecordNameError
  \/ RecordAndEmit
  \/ Finalize

Spec == Init /\ [][Next]_vars

\* =================================================================
\* Vocabulary of the properties, defined on the inputs and the state
\* =================================================================
\* number of roster entries whose loop body ran to its end
Completed == anum
\* the current roster entry has begun its loop body and not finished it
Begun == pc \in {"affil", "record"} \/ (pc = "error" /\ err.type # "RuntimeError")
Terminated == pc \in {"done", "error"}
AllInDb == \A i \in 1..Len(authors) : authors[i] \in DbIds

AffilOf(i) == authorinfo[authors[i]].affil

RECURSIVE Concat(_)
Concat(ss) == IF ss = <<>> THEN <<>> ELSE Head(ss) \o Concat(Tail(ss))

\* every label reference of the completed entries, in roster order
Flat == Concat([i \in 1..Completed |-> AffilOf(i)])
\* ... and those the current entry has consumed so far
Seen == Flat \o (IF Begun THEN SubSeq(auth.affil, 1, j - 1) ELSE <<>>)

FirstPos(s, l) == CHOOSE p \in 1..Len(s) : s[p] = l /\ \A q \in 1..(p - 1) : s[q] # l
\* 1 + the number of distinct labels that occur before l's first occurrence
Rank(s, l) == Cardinality(Range(SubSeq(s, 1, FirstPos(s, l))))
\* the ranks of all labels of s
Ranks(s) == [l \in Range(s) |-> Rank(s, l)]
\* the first completed roster entry (1-based) that lists l
FirstAuthor(l) ==
  CHOOSE i \in 1..Completed :
    l \in Range(AffilOf(i)) /\ \A k \in 1..(i - 1) : l \notin Range(AffilOf(k))

IsAffil(o) == o.kind = "affil"
IsAuthor(o) == o.kind = "author"
\* the affiliation lines queued or printed so far
AffilLines ==
  IF buffer_authors(mode) /\ pc # "done" THEN allAffil ELSE SelectSeq(output, IsAffil)
\* number of author commands among the first q output lines
AuthorsBefore(q) == Cardinality({p \in 1..q : IsAuthor(output[p])})
AuthorLines == SelectSeq(output, IsAuthor)

\* the markers of the completed entries, where the dialect keeps them
KeepsMarkers == buffer_affil(mode)
MarkerOf(i) ==
  IF buffer_authors(mode) THEN authOutput[i].affilAuth
  ELSE SubSeq(AuthorLines[i].orcid, 2, Len(AuthorLines[i].orcid) - 1)
\* the index atoms of a marker, without commas and superscript markup
IsIndexAtom(a) == a \notin {",", "$^", "$"}
MarkerInds(marker) == SelectSeq(marker, IsIndexAtom)
IndexRange(n) == {Str(k) : k \in 1..n}

\* =================================================================
\* C2  Affiliation index stability.  At every point of the main pass
\* affilset holds each label seen so far exactly once, in the order of
\* the labels' first occurrences in roster order, so a label's index is
\* 1 + the number of distinct labels first seen before it; every step
\* leaves the old affilset as a prefix of the new one; and every marker
\* produced so far (the one being built and the ones kept in the output
\* or the authors buffer) carries, for each label it refers to, the
\* index that label has now.
\* =================================================================
IsPrefix(s, t) == Len(s) <= Len(t) /\ SubSeq(t, 1, Len(s)) = s

IndexByFirstSeen ==
  LET rk == Ranks(Seen)
  IN /\ Len(affilset) = Cardinality(DOMAIN rk)
     /\ \A l \in DOMAIN rk : affilset[rk[l]] = l

RefsUseIndex ==
  LET rk == Ranks(Seen)
      cur == MarkerInds(affilAuth)
  IN /\ Begun =>
          /\ Len(cur) = j - 1
          /\ \A k \in 1..(j - 1) : cur[k] = Str(rk[auth.affil[k]])
     /\ KeepsMarkers =>
          \A i \in 1..Completed :
            LET inds == MarkerInds(MarkerOf(i))
            IN /\ Len(inds) = Len(AffilOf(i))
               /\ \A k \in 1..Len(AffilOf(i)) : inds[k] = Str(rk[AffilOf(i)[k]])

C2_IndexStable ==
  /\ [](IndexByFirstSeen /\ RefsUseIndex)
  /\ [][IsPrefix(affilset, affilset')]_vars

\* a later author refers to a label an earlier author introduced second
C2_Witness ==
  /\ pc = "loop" /\ Completed >= 2 /\ KeepsMarkers
  /\ Len(affilset) = 2
  /\ AffilOf(2) # <<>> /\ AffilOf(2)[1] = affilset[2]
  /\ affilset[2] \in Range(AffilOf(1))

\* =================================================================
\* C10  Numbering invariant of the buffered dialects (spie, adass).
\* Whenever a prefix of the roster has been processed (the loop is at
\* its head, or has ended), the numbered affiliation lines queued or
\* printed so far carry the numbers 1, 2, ..., n in that order, where n
\* is the size of affilset, and every index in a marker produced so far
\* lies in 1..n.
\* =================================================================
C10_Numbering ==
  (buffer_affil(mode) /\ pc \in {"loop", "final", "done"}) =>
    LET n == Len(affilset)
        lines == AffilLines
    IN /\ Len(lines) = n
       /\ \A k \in 1..n : lines[k].num = k
       /\ \A i \in 1..Completed :
            Range(MarkerInds(MarkerOf(i))) \subseteq IndexRange(n)

\* a proper prefix of the roster is done and two lines are queued
C10_Witness ==
  /\ buffer_affil(mode) /\ pc = "loop"
  /\ Completed >= 1 /\ Completed < Len(authors)
  /\ Len(affilset) = 2 /\ Len(AffilLines) = 2

\* =================================================================
\* C9  Output ordering of the combined dialect (adass).  Before the
\* finalization nothing is printed after the banner.  After it the
\* printed lines are, in this order: the one combined author command
\* with one fragment per roster entry, the queued affiliation lines in
\* first-seen order, one author-listing record per roster entry in
\* roster order, the comment line, one commented-out index record per
\* roster entry in roster order.  In aas and spie no listing record,
\* comment line or index record is ever printed.
\* =================================================================
NonBlank(lines) == SelectSeq(lines, LAMBDA o : o.kind # "blank")
AfterBanner == SubSeq(output, 4, Len(output))

C9_CombinedOrdering ==
  /\ (buffer_authors(mode) /\ pc # "done") => output = <<Banner, Blank, Blank>>
  /\ (buffer_authors(mode) /\ pc = "done") =>
       LET nb == NonBlank(AfterBanner)
           n == Len(authors)
           a == Len(allAffil)
           rk == Ranks(Flat)
       IN /\ Len(nb) = 2 + a + 2 * n
          /\ nb[1].kind = "authors"
          /\ Len(SelectSeq(nb[1].body, LAMBDA o : o.kind = "fragment")) = n
          /\ a = Cardinality(DOMAIN rk)
          /\ \A l \in DOMAIN rk :
               /\ nb[1 + rk[l]].kind = "affil"
               /\ nb[1 + rk[l]].text = affil[l]
          /\ \A i \in 1..n :
               /\ nb[1 + a + i].kind = "paperauthor"
               /\ nb[1 + a + i].surname = Surname(authorinfo[authors[i]])
               /\ nb[1 + a + i].initials = Initials(authorinfo[authors[i]])
          /\ nb[2 + a + n] = Comment
          /\ \A i \in 1..n :
               /\ nb[2 + a + n + i].kind = "aindex"
               /\ nb[2 + a + n + i].surname = Surname(authorinfo[authors[i]])
               /\ nb[2 + a + n + i].initials = Initials(authorinfo[authors[i]])
  /\ ~buffer_authors(mode) =>
       \A q \in 1..Len(output) :
         output[q].kind \notin {"authors", "paperauthor", "comment", "aindex"}

\* a finished adass run over two different authors and two affiliations
C9_Witness ==
  /\ buffer_authors(mode) /\ pc = "done"
  /\ Len(authors) >= 2 /\ authors[1] # authors[2]
  /\ Len(allAffil) = 2

\* =================================================================
\* C1  Affiliation deduplication.  The address texts of different
\* labels differ (AddrPairs), so a line is told apart by its text.
\* =================================================================
\* each label of the completed entries has exactly one line
EachLabelOnce(lines) ==
  \A l \in Range(Flat) :
    Cardinality({p \in 1..Len(lines) : lines[p].text = affil[l]}) = 1

\* ... and the lines stand in the order of the labels' first occurrences
InFirstSeenOrder(lines) ==
  LET rk == Ranks(Flat)
  IN /\ Len(lines) = Cardinality(DOMAIN rk)
     /\ \A l \in DOMAIN rk : lines[rk[l]].text = affil[l] /\ lines[rk[l]].num = rk[l]

\* ... and, when printed per author, a label's line follows the command
\* of the first roster entry that lists the label
AfterFirstAuthor ==
  \A q \in 1..Len(output) :
    IsAffil(output[q]) =>
      \E l \in Range(Flat) :
        output[q].text = affil[l] /\ AuthorsBefore(q) = FirstAuthor(l)

\* C1 as stated: in every dialect, the formatted line of each distinct
\* label is in the output exactly once, at the place of the label's first
\* occurrence across the authors in roster order.
C1_Original ==
  /\ EachLabelOnce(AffilLines)
  /\ ~buffer_authors(mode) => AfterFirstAuthor

\* C1 as amended: in the spie and adass dialects, the numbered line of
\* each distinct label listed by the roster entries processed so far is
\* queued or printed exactly once, in the order of the labels' first
\* occurrences (spie: right after the command of the first entry that
\* lists it); in the aas dialect every entry's own labels are reprinted
\* after its command, one line per listed label, repeats included.
C1_Dedup ==
  /\ buffer_affil(mode) =>
       /\ EachLabelOnce(AffilLines)
       /\ InFirstSeenOrder(AffilLines)
       /\ ~buffer_authors(mode) => AfterFirstAuthor
  /\ ~buffer_affil(mode) =>
       /\ Len(AffilLines) = Len(Flat)
       /\ \A k \in 1..Len(Flat) : AffilLines[k].text = affil[Flat[k]]

\* two completed entries share a label and the first one lists it twice
C1_Witness ==
  /\ buffer_affil(mode) /\ Terminated /\ Completed >= 2
  /\ Len(AffilOf(1)) = 2 /\ AffilOf(1)[1] = AffilOf(1)[2]
  /\ AffilOf(1)[1] \in Range(AffilOf(2))
  /\ Len(AffilLines) = 2

\* =================================================================
\* C8  Affiliation marker.
\* =================================================================
\* a marker without the superscript markup around its indices
PlainMarker(marker) == SelectSeq(marker, LAMBDA a : a \notin {"$^", "$"})

\* adass wraps every index as $^n$; the other dialects use no markup
MarkupOK(marker) ==
  IF author_super(mode)
  THEN /\ \A p \in 1..Len(marker) :
            IsIndexAtom(marker[p]) =>
              /\ p > 1 /\ marker[p - 1] = "$^"
              /\ p < Len(marker) /\ marker[p + 1] = "$"
       /\ Len(marker) = Len(PlainMarker(marker)) + 2 * Len(MarkerInds(marker))
  ELSE PlainMarker(marker) = marker

\* the marker is the labels' indices joined by commas, after `lead` commas
\* and before `trail` commas
MarkerShape(marker, labels, lead, trail) ==
  LET pm == PlainMarker(marker)
      n == Len(labels)
      rk == Ranks(Seen)
  IN /\ MarkupOK(marker)
     /\ Len(pm) = IF n = 0 THEN 0 ELSE lead + (2 * n - 1) + trail
     /\ \A k \in 1..n : pm[lead + 2 * k - 1] = Str(rk[labels[k]])
     /\ \A k \in 1..(n - 1) : pm[lead + 2 * k] = ","
     /\ n > 0 => (\A k \in 1..lead : pm[k] = ",")
     /\ n > 0 => (\A k \in 1..trail : pm[lead + 2 * n - 1 + k] = ",")

\* the roster entry at 1-based position i is an adass entry that is not last
ExtraComma(i) == IF author_super(mode) /\ i < Len(authors) THEN 1 ELSE 0

\* C8 as stated: the extra comma of an adass author who is not last is
\* appended to the marker (it trails the last index).
C8_Original ==
  /\ pc = "record" => MarkerShape(affilAuth, auth.affil, 0, ExtraComma(anum + 1))
  /\ KeepsMarkers =>
       \A i \in 1..Completed : MarkerShape(MarkerOf(i), AffilOf(i), 0, ExtraComma(i))

\* C8 as amended: an author's marker is the sequence of the 1-based
\* indices of the author's labels, in the order listed, repeats included,
\* separated by single commas (adass: each index as a superscript); in
\* spie and aas and for the last roster entry in adass there is no extra
\* comma; for every adass entry that is not last in the roster and lists
\* at least one label, one extra comma stands in front of the first index
\* (none trails the last); the marker of an entry without labels is empty.
C8_Marker ==
  /\ pc = "record" => MarkerShape(affilAuth, auth.affil, ExtraComma(anum + 1), 0)
  /\ KeepsMarkers =>
       \A i \in 1..Completed : MarkerShape(MarkerOf(i), AffilOf(i), ExtraComma(i), 0)

\* an adass run has completed a first entry with exactly one label and a
\* last entry with two
C8_Witness ==
  /\ author_super(mode) /\ pc = "done" /\ Completed >= 2
  /\ Len(AffilOf(1)) = 1
  /\ Len(AffilOf(Completed)) = 2
  /\ authOutput[1].affilAuth # <<>>

\* =================================================================
\* C3  Author command count: when the run of a roster whose identifiers
\* are all in the database has ended, aas and spie have printed exactly
\* one author command per roster entry, in roster order, and adass has
\* printed exactly one combined author command with one fragment per
\* roster entry, in roster order.
\* =================================================================
CombinedCommands == SelectSeq(output, LAMBDA o : o.kind = "authors")
Fragments(cmd) == SelectSeq(cmd.body, LAMBDA o : o.kind = "fragment")

C3_Original ==
  (Terminated /\ AllInDb) =>
    IF buffer_authors(mode)
    THEN /\ Len(CombinedCommands) = 1
         /\ Len(Fragments(CombinedCommands[1])) = Len(authors)
         /\ \A i \in 1..Len(authors) :
              Fragments(CombinedCommands[1])[i].surname = Surname(authorinfo[authors[i]])
    ELSE /\ Len(AuthorLines) = Len(authors)
         /\ \A i \in 1..Len(authors) :
              AuthorLines[i].surname = Surname(authorinfo[authors[i]])

\* =================================================================
\* C4  Missing author: when the run of a roster whose first identifier
\* without a database entry stands at position k has ended, it has ended
\* in the fatal error that names that identifier, nothing was printed or
\* buffered for a position >= k, and the finalization has not run.
\* =================================================================
FirstMissing ==
  CHOOSE k \in 1..Len(authors) :
    authors[k] \notin DbIds /\ \A i \in 1..(k - 1) : authors[i] \in DbIds

C4_Original ==
  (Terminated /\ ~AllInDb) =>
    /\ err = [type |-> "RuntimeError", authorid |-> authors[FirstMissing]]
    /\ Len(pAuthorOutput) < FirstMissing
    /\ Len(indexOutput) < FirstMissing
    /\ Len(authOutput) < FirstMissing
    /\ Len(AuthorLines) < FirstMissing
    /\ CombinedCommands = <<>>

\* =================================================================
\* C5  Address parsing never fails: whatever the number of segments of
\* the address text, the per-author pass raises no error while parsing
\* it or formatting its fields, and at the point where the listing
\* record is formatted every field without a segment is the empty
\* string: the institution is the first segment, the country is empty
\* with fewer than 2 segments, state and zipcode are empty with fewer
\* than 3, the city is empty with fewer than 4.
\* =================================================================
C5_Original ==
  /\ err.type # "NameError"
  /\ ~(err.type = "IndexError" /\ err.line = 177)
  /\ pc = "record" =>
       LET nseg == Len(Split(affil[affilset[1]]))
       IN /\ tute = Split(affil[affilset[1]])[1]
          /\ {"country", "state", "pcode"} \subseteq bound
          /\ nseg < 2 => country = <<>>
          /\ nseg < 3 => state = "" /\ pcode = ""
          /\ nseg < 4 => city = <<>>

\* =================================================================
\* C6  Author listing record: the record of every roster entry carries
\* the institution and the country of that entry's own first affiliation
\* label (the first and the last segment of its address text), whatever
\* the earlier entries listed, and an entry with an empty affiliation
\* list, the first of the roster included, does not make the run fail.
\* =================================================================
C6_Original ==
  /\ ~(err.type = "IndexError" /\ err.line = 168)
  /\ \A i \in 1..Len(pAuthorOutput) :
       AffilOf(i) # <<>> =>
         LET own == Split(affil[AffilOf(i)[1]])
         IN /\ pAuthorOutput[i].tute = own[1]
            /\ pAuthorOutput[i].country = own[Len(own)]

\* =================================================================
\* C7  Combined-mode separator: the body of the combined author command
\* is the buffered fragments in roster order with " " between
\* consecutive fragments, " and " before the last one, and nothing after
\* the last fragment.
\* =================================================================
C7_Original ==
  (buffer_authors(mode) /\ pc = "done") =>
    LET body == CombinedCommands[1].body
        n == Len(authOutput)
    IN /\ Len(body) = IF n = 0 THEN 0 ELSE 2 * n - 1
       /\ \A i \in 1..n : body[2 * i - 1] = authOutput[i]
       /\ \A i \in 1..(n - 1) :
            body[2 * i] = IF i = n - 1 THEN Sep(" and ") ELSE Sep(" ")

====
